---- MODULE Spec2Model ----
(***************************************************************************)
(* Content auditor: the disk cache (utils/cache.py), the budget manager    *)
(* (utils/budget.py), the page pipeline process_page and the batch runner  *)
(* audit (main.py).                                                        *)
(*                                                                         *)
(* Python values are modelled as records.  A dict literal is a record     *)
(* whose DOMAIN is its key set; None, strings returned by collaborators    *)
(* and the values handed to the cache API carry a "py" tag.                *)
(***************************************************************************)
EXTENDS Integers, Sequences, FiniteSets, TLC

VARIABLES
    cache_dir,      \* Cache.cache_dir: file name -> file state
    max_calls,      \* BudgetManager.max_calls
    calls_made,     \* BudgetManager.calls_made
    calls_by_type,  \* BudgetManager.calls_by_type
    all_urls,       \* audit: all_urls (rows of the input CSV)
    max_pages,      \* audit: --max-pages
    no_llm,         \* audit: --no-llm
    urls,           \* audit: urls = all_urls[:max_pages]
    results,        \* audit: results
    pc,             \* audit: position in the command
    stopped_early,  \* audit: the loop was left through `break`
    jsonl_written,  \* reports/pages.jsonl completely written
    csv_rows,       \* data rows written to reports/summary.csv so far
    csv_written,    \* reports/summary.csv completely written
    log,            \* history: what each process_page call of this run invoked
    api             \* history: last call made on the Cache API (cache specification)

vars == << cache_dir, max_calls, calls_made, calls_by_type, all_urls, max_pages,
           no_llm, urls, results, pc, stopped_early, jsonl_written, csv_rows,
           csv_written, log, api >>

----------------------------------------------------------------------------
(* Bounds of the model *)

MaxLen == 2      \* longest input URL list
MaxCalls == 1    \* largest --max-calls
MaxDrive == 2    \* process_page calls made by the direct driver
MaxPayload == 1  \* payloads 0..MaxPayload of the values handed to the cache API

\* Two URL strings that differ only by a trailing slash
URLS == { "http://a", "http://a/" }

\* --max-pages: negative, zero, one short of the longest list, and no limit in effect
PageLimits == { -1, 0, MaxLen - 1, MaxLen }

RECURSIVE SeqsUpTo(_, _)
SeqsUpTo(S, n) ==
    IF n = 0 THEN { << >> }
    ELSE LET shorter == SeqsUpTo(S, n - 1)
         IN  shorter \cup { Append(s, x) : s \in { t \in shorter : Len(t) = n - 1 }, x \in S }

----------------------------------------------------------------------------
(* Python values *)

None == [py |-> "None"]
Str(s) == [py |-> "str", s |-> s]
EmptyDict == [py |-> "dict"]
PyInt(n) == [py |-> "int", n |-> n]

\* Python truth value: None, "" and {} are false; a non-empty dict is true.
Truthy(v) ==
    IF "py" \in DOMAIN v
    THEN CASE v.py = "None" -> FALSE
           [] v.py = "str" -> v.s # ""
           [] v.py = "dict" -> FALSE
           [] OTHER -> TRUE
    ELSE DOMAIN v # {}

\* dict.get(key, default)
DictGet(d, key, default) == IF key \in DOMAIN d THEN d[key] ELSE default

\* Python slice seq[:n], also for negative n (counted from the end)
SliceTo(seq, n) ==
    LET stop == IF n >= 0 THEN (IF n < Len(seq) THEN n ELSE Len(seq))
                ELSE (IF Len(seq) + n > 0 THEN Len(seq) + n ELSE 0)
    IN  SubSeq(seq, 1, stop)

----------------------------------------------------------------------------
(* utils/cache.py *)

\* Values handed to the cache API directly: the dict {key: container} whose one
\* key is the str "1" or the int 1 and whose container is the list [payload],
\* the tuple (payload,) or the set {payload}.
Data(keytype, seqtype, payload) ==
    [py |-> "data", keytype |-> keytype, seqtype |-> seqtype, payload |-> payload]

IsData(v) == "py" \in DOMAIN v /\ v.py = "data"

\* json.dump raises TypeError on a value it cannot encode (a set).
JsonSerializable(v) == IsData(v) => v.seqtype \in {"list", "tuple"}

\* The JSON document json.dump writes: object keys are always strings and
\* lists and tuples are both written as arrays.
JsonDump(v) ==
    IF IsData(v) THEN [json |-> "object", key |-> "1", array |-> v.payload]
    ELSE IF "py" \in DOMAIN v /\ v.py = "None" THEN [json |-> "null"]
    ELSE [json |-> "value", value |-> v]

\* The value json.load builds: objects become dicts with str keys, arrays lists.
JsonLoad(doc) ==
    CASE doc.json = "object" -> Data("str", "list", doc.array)
      [] doc.json = "null" -> None
      [] OTHER -> doc.value

Absent == [st |-> "absent"]
Partial == [st |-> "partial"]
JsonFile(doc) == [st |-> "json", text |-> doc]

\* Mutant: the key is normalised before hashing (trailing slash dropped)
Cache_get_hash_normalized(key) == "sha256(http://a)"

Cache_get_hash(key) == "sha256(" \o key \o ")"

Cache_get_cache_path(key) == Cache_get_hash(key) \o ".json"

CachePaths == { Cache_get_cache_path(k) : k \in URLS }

\* Cache.get: the file's JSON value, None when the file is missing or unreadable.
Cache_get(dir, key) ==
    LET cache_path == Cache_get_cache_path(key)
    IN  IF dir[cache_path].st # "absent"
        THEN IF dir[cache_path].st = "json"
             THEN JsonLoad(dir[cache_path].text)
             ELSE None
        ELSE None

\* Mutant: the file is opened for appending, so a second write leaves two
\* documents in it
Cache_set_append(dir, key, data, io) ==
    LET cache_path == "sha256(" \o key \o ").json"
    IN  IF io = "open_error" THEN dir
        ELSE IF io = "write_error" \/ ~JsonSerializable(data) \/ dir[cache_path].st # "absent"
             THEN [dir EXCEPT ![cache_path] = Partial]
             ELSE [dir EXCEPT ![cache_path] = JsonFile(JsonDump(data))]

\* Cache.set: open(cache_path, "w") truncates the file before json.dump runs;
\* every exception is logged and swallowed.
Cache_set(dir, key, data, io) ==
    LET cache_path == Cache_get_cache_path(key)
    IN  IF io = "open_error" THEN dir
        ELSE IF io = "write_error" \/ ~JsonSerializable(data)
             THEN [dir EXCEPT ![cache_path] = Partial]
             ELSE [dir EXCEPT ![cache_path] = JsonFile(JsonDump(data))]

\* Cache.clear: unlink every *.json file.
Cache_clear(dir) == [p \in DOMAIN dir |-> Absent]

\* Cache.get_stats()["total_entries"]
Cache_total_entries(dir) == Cardinality({ p \in DOMAIN dir : dir[p].st # "absent" })

SetIO == {"ok", "open_error", "write_error"}

----------------------------------------------------------------------------
(* utils/budget.py *)

Budget(mc, cm, cbt) == [max_calls |-> mc, calls_made |-> cm, calls_by_type |-> cbt]

BudgetManager_init(mc) == Budget(mc, 0, [t \in {} |-> 0])

\* Mutant: the ceiling test is off by one (> instead of >=)
can_make_call_off_by_one(budget, call_type) ==
    IF budget.calls_made > budget.max_calls THEN FALSE ELSE TRUE

can_make_call(budget, call_type) ==
    IF budget.calls_made >= budget.max_calls THEN FALSE ELSE TRUE

\* Mutant: the ceiling is checked again before the call is counted
record_call_checked(budget, call_type) ==
    IF budget.calls_made >= budget.max_calls THEN budget
    ELSE [budget EXCEPT
            !.calls_made = @ + 1,
            !.calls_by_type = [t \in DOMAIN @ \cup {call_type} |->
                                  IF t = call_type THEN DictGet(@, call_type, 0) + 1 ELSE @[t]]]

\* Mutant: the call is counted in total but not under its type
record_call_untyped(budget, call_type) == [budget EXCEPT !.calls_made = @ + 1]

record_call(budget, call_type) ==
    [budget EXCEPT
        !.calls_made = @ + 1,
        !.calls_by_type = [t \in DOMAIN @ \cup {call_type} |->
                              IF t = call_type THEN DictGet(@, call_type, 0) + 1 ELSE @[t]]]

----------------------------------------------------------------------------
(* Collaborators of the page pipeline.  What the network, the page content   *)
(* and the model endpoint do is the environment's choice (the parameter o);  *)
(* what each function returns for it is taken from its code.                 *)

FetchOutcomes == {"request_error", "empty_body", "ok"}
ExtractOutcomes == {"exception", "empty_text", "ok"}
RuleOutcomes == {"clean", "exception"}
ToneOutcomes == {"exception", "summary"}

\* utils/html_fetch.py: response.text, or None on any exception
fetch_page(url, o) ==
    CASE o = "request_error" -> None
      [] o = "empty_body" -> Str("")
      [] OTHER -> Str("<html>")

\* utils/html_to_text.py: the cleaned text, or None on any exception
extract_text(html, o) ==
    CASE o = "exception" -> None
      [] o = "empty_text" -> Str("")
      [] OTHER -> Str("text")

\* rules/seo_rules.py: on an exception the bundle gets "error" and no "overall_score"
check_seo(html, text, o) ==
    IF o = "exception"
    THEN [scores |-> << >>, issues |-> << >>, metrics |-> << >>, error |-> "exception"]
    ELSE [scores |-> << 100, 100, 100, 100, 100 >>, issues |-> << >>, metrics |-> << >>,
          overall_score |-> 100]

\* rules/a11y_rules.py: same shape
check_a11y(html, text, o) ==
    IF o = "exception"
    THEN [scores |-> << >>, issues |-> << >>, metrics |-> << >>, error |-> "exception"]
    ELSE [scores |-> << 100, 100, 100 >>, issues |-> << >>, metrics |-> << >>,
          overall_score |-> 100]

\* chains/tone_chain.py: the parsed summary, or None on any exception
analyze_tone(text, o) ==
    IF o = "exception" THEN None
    ELSE [readability |-> "r", tone |-> "t", risks |-> "k"]

\* One environment choice per process_page call; a collaborator that a failed
\* earlier step keeps from running has no outcome ("-").
Env ==
    { e \in [fetch : FetchOutcomes, extract : ExtractOutcomes \cup {"-"},
             seo : RuleOutcomes \cup {"-"}, a11y : RuleOutcomes \cup {"-"},
             tone : ToneOutcomes \cup {"-"}, write : SetIO \cup {"-"}] :
        /\ (e.extract = "-") <=> (e.fetch # "ok")
        /\ (e.seo = "-") <=> (e.extract # "ok")
        /\ (e.a11y = "-") <=> (e.extract # "ok")
        /\ (e.tone = "-") <=> (e.extract # "ok")
        /\ (e.write = "-") <=> (e.extract # "ok") }

----------------------------------------------------------------------------
(* main.py: process_page *)

\* The error-shaped result of lines 106-112 and 117-123
ErrorResult(url, message) ==
    [url |-> url, error |-> message, seo_rules |-> EmptyDict, a11y_rules |-> EmptyDict,
     tone_summary |-> None]

\* The assembled result of lines 138-148
FullResult(url, seo_results, a11y_results, tone_summary) ==
    [url |-> url, seo_rules |-> seo_results, a11y_rules |-> a11y_results,
     tone_summary |-> tone_summary,
     issues |-> DictGet(seo_results, "issues", << >>) \o DictGet(a11y_results, "issues", << >>),
     scores |-> [seo |-> DictGet(seo_results, "overall_score", 0),
                 a11y |-> DictGet(a11y_results, "overall_score", 0)]]

\* Mutant: a cached entry without a tone summary is processed again
UseCached_upgrade(cached) == Truthy(cached) /\ Truthy(cached.tone_summary)

\* `if cached:`
UseCached(cached) == Truthy(cached)

\* Mutant: the tone step is not gated by the budget
ToneGate_ungated(use_llm, budget) == use_llm

\* `if use_llm and budget.can_make_call("tone_analysis"):`
ToneGate(use_llm, budget) == use_llm /\ can_make_call(budget, "tone_analysis")

\* Mutant: the call is recorded whatever the analyzer returned
RecordTone_always(budget, tone_summary) == record_call(budget, "tone_analysis")

\* Mutant: an analysis that returned nothing gives its call back to the budget
RecordTone_refund(budget, tone_summary) ==
    IF Truthy(tone_summary) THEN record_call(budget, "tone_analysis")
    ELSE [budget EXCEPT !.calls_made = @ - 1]

\* `if tone_summary: budget.record_call("tone_analysis")`
RecordTone(budget, tone_summary) ==
    IF Truthy(tone_summary) THEN record_call(budget, "tone_analysis") ELSE budget

\* Which collaborators one process_page call invoked
Trace(url, use_llm, hit, fetch, extract, rules, tone, record, set) ==
    [url |-> url, use_llm |-> use_llm, cache_hit |-> hit, fetch |-> fetch,
     extract |-> extract, rules |-> rules, tone |-> tone, record |-> record, set |-> set]

\* Lines 99-101: return the cached result
CacheHit(cached, url, dir, budget, use_llm) ==
    [ret |-> cached, cache_dir |-> dir, budget |-> budget,
     trace |-> Trace(url, use_llm, TRUE, FALSE, FALSE, FALSE, FALSE, FALSE, FALSE)]

\* Mutant: the error result is written to the cache before it is returned
FetchFailed_cached(url, dir, budget, use_llm) ==
    [ret |-> ErrorResult(url, "Failed to fetch page"),
     cache_dir |-> Cache_set(dir, url, ErrorResult(url, "Failed to fetch page"), "ok"),
     budget |-> budget,
     trace |-> Trace(url, use_llm, FALSE, TRUE, FALSE, FALSE, FALSE, FALSE, TRUE)]

\* Lines 105-112: fetch_page returned nothing
FetchFailed(url, dir, budget, use_llm) ==
    [ret |-> ErrorResult(url, "Failed to fetch page"), cache_dir |-> dir, budget |-> budget,
     trace |-> Trace(url, use_llm, FALSE, TRUE, FALSE, FALSE, FALSE, FALSE, FALSE)]

\* Mutant: the extraction error is written to the cache before it is returned
ExtractFailed_cached(url, dir, budget, use_llm) ==
    [ret |-> ErrorResult(url, "Failed to extract text"),
     cache_dir |-> Cache_set(dir, url, ErrorResult(url, "Failed to extract text"), "ok"),
     budget |-> budget,
     trace |-> Trace(url, use_llm, FALSE, TRUE, TRUE, FALSE, FALSE, FALSE, TRUE)]

\* Lines 116-123: extract_text returned nothing
ExtractFailed(url, dir, budget, use_llm) ==
    [ret |-> ErrorResult(url, "Failed to extract text"), cache_dir |-> dir, budget |-> budget,
     trace |-> Trace(url, use_llm, FALSE, TRUE, TRUE, FALSE, FALSE, FALSE, FALSE)]

\* Mutant: the result is cached under a normalised URL
CacheResult_normalized(dir, url, result, io) == Cache_set(dir, "http://a", result, io)

\* Mutant: a result without a tone summary is not cached
CacheResult_only_with_tone(dir, url, result, io) ==
    IF Truthy(result.tone_summary) THEN Cache_set(dir, url, result, io) ELSE dir

\* The cache write of line 151, under the input URL
CacheResult(dir, url, result, io) == Cache_set(dir, url, result, io)

\* Lines 125-153: rules, the optional tone step, assembly and the cache write
Scored(url, dir, budget, use_llm, env, html, text) ==
    LET seo_results == check_seo(html, text, env.seo)
        a11y_results == check_a11y(html, text, env.a11y)
        gate == ToneGate(use_llm, budget)
        tone_summary == IF gate THEN analyze_tone(text, env.tone) ELSE None
        budget2 == IF gate THEN RecordTone(budget, tone_summary) ELSE budget
        result == FullResult(url, seo_results, a11y_results, tone_summary)
    IN  [ret |-> result,
         cache_dir |-> CacheResult(dir, url, result, env.write),
         budget |-> budget2,
         trace |-> Trace(url, use_llm, FALSE, TRUE, TRUE, TRUE, gate,
                         budget2.calls_made # budget.calls_made, TRUE)]

\* process_page(url, cache, budget, use_llm): the returned result, the cache and
\* the budget after the call, and the collaborators it invoked.
process_page(url, dir, budget, use_llm, env) ==
    LET cached == Cache_get(dir, url)
        html == fetch_page(url, env.fetch)
        text == extract_text(html, env.extract)
    IN  IF UseCached(cached) THEN CacheHit(cached, url, dir, budget, use_llm)
        ELSE IF ~Truthy(html) THEN FetchFailed(url, dir, budget, use_llm)
        ELSE IF ~Truthy(text) THEN ExtractFailed(url, dir, budget, use_llm)
        ELSE Scored(url, dir, budget, use_llm, env, html, text)

----------------------------------------------------------------------------
(* main.py: audit *)

\* load_urls_from_csv: the rows of the file, or an exception (re-raised)
LoadOutcomes == {"ok", "error"}

\* `urls = all_urls[:max_pages]`
LimitUrls(all, limit) == SliceTo(all, limit)

\* Mutant: the --no-llm test is inverted
StopEarly_inverted(nollm, budget) == nollm /\ ~can_make_call(budget, "default")

\* `if not no_llm and not budget.can_make_call(): break`
StopEarly(nollm, budget) == ~nollm /\ ~can_make_call(budget, "default")

\* `results.append(result)`
AppendResult(res, result) == Append(res, result)

\* The URL the for loop hands to process_page next
NextUrl(us, res) == us[Len(res) + 1]

\* summary.csv: the rows written before result['scores'] raises KeyError
CsvRows(res) ==
    LET bad == { i \in 1..Len(res) : "scores" \notin DOMAIN res[i] }
    IN  IF bad = {} THEN Len(res)
        ELSE (CHOOSE i \in bad : \A j \in bad : i <= j) - 1

CsvComplete(res) == \A i \in 1..Len(res) : "scores" \in DOMAIN res[i]

CurrentBudget == Budget(max_calls, calls_made, calls_by_type)

\* The cache directory outlives the command: a URL is not in it, or an earlier
\* run made with --no-llm has left its result there.
PriorFiles(url) ==
    { Absent,
      JsonFile(JsonDump(FullResult(url, check_seo(Str("<html>"), Str("text"), "clean"),
                                   check_a11y(Str("<html>"), Str("text"), "clean"), None))) }

PriorCaches ==
    { dir \in [CachePaths -> UNION { PriorFiles(u) : u \in URLS }] :
        \A u \in URLS : dir[Cache_get_cache_path(u)] \in PriorFiles(u) }

Init ==
    /\ cache_dir \in PriorCaches
    /\ max_calls = 0
    /\ calls_made = 0
    /\ calls_by_type = [t \in {} |-> 0]
    /\ all_urls = << >>
    /\ max_pages = 0
    /\ no_llm = FALSE
    /\ urls = << >>
    /\ results = << >>
    /\ pc = "idle"
    /\ stopped_early = FALSE
    /\ jsonl_written = FALSE
    /\ csv_rows = 0
    /\ csv_written = FALSE
    /\ log = << >>
    /\ api = [op |-> "none"]

\* Lines 169-202: construct the cache and the budget, clear the cache on
\* --clear-cache, load the CSV (Exit(1) on failure), truncate to max_pages.
AuditStart ==
    /\ pc = "idle"
    /\ \E csv \in SeqsUpTo(URLS, MaxLen), mp \in PageLimits, mc \in 0..MaxCalls,
          nollm \in BOOLEAN, clear_cache \in BOOLEAN, load \in LoadOutcomes :
        LET b == BudgetManager_init(mc)
        IN  /\ cache_dir' = IF clear_cache THEN Cache_clear(cache_dir) ELSE cache_dir
            /\ max_calls' = b.max_calls
            /\ calls_made' = b.calls_made
            /\ calls_by_type' = b.calls_by_type
            /\ no_llm' = nollm
            /\ max_pages' = mp
            /\ results' = << >>
            /\ log' = << >>
            /\ stopped_early' = FALSE
            /\ jsonl_written' = FALSE
            /\ csv_rows' = 0
            /\ csv_written' = FALSE
            /\ IF load = "error"
               THEN /\ all_urls' = << >>
                    /\ urls' = << >>
                    /\ pc' = "exit"
               ELSE /\ all_urls' = csv
                    /\ urls' = LimitUrls(csv, mp)
                    /\ pc' = IF Len(LimitUrls(csv, mp)) = 0 THEN "reports" ELSE "loop"
    /\ UNCHANGED api

\* Lines 204-212: one iteration of the for loop
LoopStep ==
    /\ pc = "loop"
    /\ \E env \in Env :
        LET url == NextUrl(urls, results)
            r == process_page(url, cache_dir, CurrentBudget, ~no_llm, env)
            stop == StopEarly(no_llm, r.budget)
        IN  /\ results' = AppendResult(results, r.ret)
            /\ log' = Append(log, r.trace)
            /\ cache_dir' = r.cache_dir
            /\ calls_made' = r.budget.calls_made
            /\ calls_by_type' = r.budget.calls_by_type
            /\ stopped_early' = stop
            /\ pc' = IF stop \/ Len(results) + 1 = Len(urls) THEN "reports" ELSE "loop"
    /\ UNCHANGED << max_calls, all_urls, max_pages, no_llm, urls, jsonl_written,
                    csv_rows, csv_written, api >>

\* Mutant: the reports are written in a finally block, also after Exit(1)
SaveReports_finally ==
    /\ pc \in {"reports", "exit"}
    /\ jsonl_written' = TRUE
    /\ csv_rows' = CsvRows(results)
    /\ csv_written' = CsvComplete(results)
    /\ pc' = IF pc = "exit" THEN "exit"
             ELSE IF CsvComplete(results) THEN "stats" ELSE "crashed"
    /\ UNCHANGED << cache_dir, max_calls, calls_made, calls_by_type, all_urls, max_pages,
                    no_llm, urls, results, stopped_early, log, api >>

\* Lines 216-240: pages.jsonl, then summary.csv (result['scores'] raises
\* KeyError on an error-shaped result)
SaveReports ==
    /\ pc = "reports"
    /\ jsonl_written' = TRUE
    /\ csv_rows' = CsvRows(results)
    /\ csv_written' = CsvComplete(results)
    /\ pc' = IF CsvComplete(results) THEN "stats" ELSE "crashed"
    /\ UNCHANGED << cache_dir, max_calls, calls_made, calls_by_type, all_urls, max_pages,
                    no_llm, urls, results, stopped_early, log, api >>

\* Lines 242-275: elapsed_time/len(results) raises ZeroDivisionError on no results
DisplayStats ==
    /\ pc = "stats"
    /\ pc' = IF Len(results) = 0 THEN "crashed" ELSE "done"
    /\ UNCHANGED << cache_dir, max_calls, calls_made, calls_by_type, all_urls, max_pages,
                    no_llm, urls, results, stopped_early, jsonl_written, csv_rows,
                    csv_written, log, api >>

Next == AuditStart \/ LoopStep \/ SaveReports \/ DisplayStats

Spec == Init /\ [][Next]_vars

----------------------------------------------------------------------------
(* The Cache API on its own: set, get and clear called in any order, as the  *)
(* tests in tests/test_integration.py do.                                    *)

CacheValues ==
    { Data(kt, st, n) : kt \in {"str", "int"}, st \in {"list", "tuple", "set"},
                        n \in 0..MaxPayload }

Unset == [py |-> "unset"]

\* Built from the types JSON has: str keys and lists
JsonNative(v) == IsData(v) /\ v.keytype = "str" /\ v.seqtype = "list"

\* api.stored[k]: the value of the last set(k, .) since the last clear(), when
\*                that call wrote its file; Unset otherwise
\* api.touched:   the keys set(k, .) was called on since the last clear()
InitCache ==
    /\ cache_dir = [p \in CachePaths |-> Absent]
    /\ max_calls = 0
    /\ calls_made = 0
    /\ calls_by_type = [t \in {} |-> 0]
    /\ all_urls = << >>
    /\ max_pages = 0
    /\ no_llm = FALSE
    /\ urls = << >>
    /\ results = << >>
    /\ pc = "api"
    /\ stopped_early = FALSE
    /\ jsonl_written = FALSE
    /\ csv_rows = 0
    /\ csv_written = FALSE
    /\ log = << >>
    /\ api = [op |-> "init", key |-> "", ret |-> None,
              stored |-> [k \in URLS |-> Unset], touched |-> {}]

ApiFrame ==
    UNCHANGED << max_calls, calls_made, calls_by_type, all_urls, max_pages, no_llm, urls,
                 results, pc, stopped_early, jsonl_written, csv_rows, csv_written, log >>

CacheSet ==
    /\ pc = "api"
    /\ \E key \in URLS, data \in CacheValues, io \in SetIO :
        /\ cache_dir' = Cache_set(cache_dir, key, data, io)
        /\ api' = [op |-> "set", key |-> key, ret |-> None,
                   stored |-> [api.stored EXCEPT ![key] =
                                  IF io = "ok" /\ JsonSerializable(data) THEN data ELSE Unset],
                   touched |-> api.touched \cup {key}]
    /\ ApiFrame

CacheGet ==
    /\ pc = "api"
    /\ \E key \in URLS :
        api' = [api EXCEPT !.op = "get", !.key = key, !.ret = Cache_get(cache_dir, key)]
    /\ UNCHANGED cache_dir
    /\ ApiFrame

CacheClear ==
    /\ pc = "api"
    /\ cache_dir' = Cache_clear(cache_dir)
    /\ api' = [op |-> "clear", key |-> "", ret |-> None,
               stored |-> [k \in URLS |-> Unset], touched |-> {}]
    /\ ApiFrame

NextCache == CacheSet \/ CacheGet \/ CacheClear

SpecCache == InitCache /\ [][NextCache]_vars

----------------------------------------------------------------------------
(* process_page driven directly, as a test of the pipeline does: any URLs    *)
(* in any order on one cache and one BudgetManager that starts at zero, also *)
(* after the budget is used up.                                              *)

InitPipeline ==
    /\ cache_dir = [p \in CachePaths |-> Absent]
    /\ max_calls \in 0..MaxCalls
    /\ calls_made = 0
    /\ calls_by_type = [t \in {} |-> 0]
    /\ all_urls = << >>
    /\ max_pages = 0
    /\ no_llm \in BOOLEAN
    /\ urls = << >>
    /\ results = << >>
    /\ pc = "driver"
    /\ stopped_early = FALSE
    /\ jsonl_written = FALSE
    /\ csv_rows = 0
    /\ csv_written = FALSE
    /\ log = << >>
    /\ api = [op |-> "none"]

CallProcessPage ==
    /\ pc = "driver"
    /\ Len(results) < MaxDrive
    /\ \E url \in URLS, env \in Env :
        LET r == process_page(url, cache_dir, CurrentBudget, ~no_llm, env)
        IN  /\ results' = Append(results, r.ret)
            /\ log' = Append(log, r.trace)
            /\ cache_dir' = r.cache_dir
            /\ calls_made' = r.budget.calls_made
            /\ calls_by_type' = r.budget.calls_by_type
    /\ UNCHANGED << max_calls, all_urls, max_pages, no_llm, urls, pc, stopped_early,
                    jsonl_written, csv_rows, csv_written, api >>

NextPipeline == CallProcessPage

SpecPipeline == InitPipeline /\ [][NextPipeline]_vars

\* The same driver without a limit on the number of calls: log and results
\* keep the last call only, so every cache and budget that any sequence of
\* process_page calls can produce is reached.  api.found is the state of the
\* URL's cache file as the last call found it.
InitCalls ==
    /\ cache_dir = [p \in CachePaths |-> Absent]
    /\ max_calls \in 0..MaxCalls
    /\ calls_made = 0
    /\ calls_by_type = [t \in {} |-> 0]
    /\ all_urls = << >>
    /\ max_pages = 0
    /\ no_llm \in BOOLEAN
    /\ urls = << >>
    /\ results = << >>
    /\ pc = "calls"
    /\ stopped_early = FALSE
    /\ jsonl_written = FALSE
    /\ csv_rows = 0
    /\ csv_written = FALSE
    /\ log = << >>
    /\ api = [op |-> "none"]

ProcessPageCall ==
    /\ pc = "calls"
    /\ \E url \in URLS, env \in Env :
        LET r == process_page(url, cache_dir, CurrentBudget, ~no_llm, env)
        IN  /\ results' = << r.ret >>
            /\ log' = << r.trace >>
            /\ cache_dir' = r.cache_dir
            /\ calls_made' = r.budget.calls_made
            /\ calls_by_type' = r.budget.calls_by_type
            /\ api' = [op |-> "process_page", found |-> cache_dir[Cache_get_cache_path(url)].st]
    /\ UNCHANGED << max_calls, all_urls, max_pages, no_llm, urls, pc, stopped_early,
                    jsonl_written, csv_rows, csv_written >>

NextCalls == ProcessPageCall

SpecCalls == InitCalls /\ [][NextCalls]_vars

----------------------------------------------------------------------------
(* Properties of process_page *)

\* This step is one process_page call
Called == Len(log') = Len(log) + 1

NoCollaborator(t) ==
    ~t.fetch /\ ~t.extract /\ ~t.rules /\ ~t.tone /\ ~t.record /\ ~t.set

BudgetUnchanged == calls_made' = calls_made /\ calls_by_type' = calls_by_type

\* C1: with max_calls = N >= 0 and one BudgetManager starting at zero, no
\* sequence of process_page calls takes calls_made, or the count recorded for
\* 'tone_analysis', above N.
C1_BudgetCeiling ==
    /\ calls_made <= max_calls
    /\ DictGet(calls_by_type, "tone_analysis", 0) <= max_calls

\* More pages eligible for tone analysis than the budget allows were processed
C1_Witness ==
    /\ max_calls >= 1
    /\ Cardinality({ i \in 1..Len(log) : log[i].use_llm /\ log[i].rules })
         > max_calls
    /\ calls_made = max_calls
    /\ DictGet(calls_by_type, "tone_analysis", 0) = max_calls

\* C2: a process_page call on a URL whose result r is in the cache returns
\* exactly r, invokes no collaborator and leaves the budget and the cache as
\* they are, also with use_llm true and a null tone_summary in r.
C2_CacheBypass ==
    [][ Called =>
          LET t == log'[Len(log')]
              file == cache_dir[Cache_get_cache_path(t.url)]
          IN  file.st = "json" =>
                /\ results'[Len(results')] = JsonLoad(file.text)
                /\ NoCollaborator(t)
                /\ BudgetUnchanged
                /\ cache_dir' = cache_dir ]_vars

\* A hit with use_llm true on an entry that has no tone summary
C2_Witness ==
    /\ Len(log) >= 1
    /\ log[Len(log)].cache_hit
    /\ log[Len(log)].use_llm
    /\ ~Truthy(results[Len(results)].tone_summary)
    /\ results[Len(results)] = Cache_get(cache_dir, log[Len(log)].url)

\* C3: when fetch fails for an uncached URL (process_page leaves before the
\* extraction), process_page returns the error result "Failed to fetch page",
\* the URL is still uncached afterwards and the budget is unchanged; and every
\* call on an uncached URL invokes fetch, so the failure is retried.
C3_FetchFailureNotCached ==
    [][ Called =>
          LET t == log'[Len(log')]
              url == t.url
          IN  ~Truthy(Cache_get(cache_dir, url)) =>
                /\ t.fetch
                /\ ~t.extract =>
                     /\ results'[Len(results')] = ErrorResult(url, "Failed to fetch page")
                     /\ ~Truthy(Cache_get(cache_dir', url))
                     /\ BudgetUnchanged ]_vars

\* A failed fetch followed by a second call on the same URL, which fetches again
C3_Witness ==
    /\ Len(log) = 2
    /\ log[1].url = log[2].url
    /\ results[1] = ErrorResult(log[1].url, "Failed to fetch page")
    /\ log[2].fetch
    /\ log[2].extract

\* No score was computed for the page: a step before the rules failed, or a
\* rule evaluator raised
ScoringPrevented(t, result) ==
    /\ ~t.cache_hit
    /\ \/ ~t.rules
       \/ "overall_score" \notin DOMAIN result.seo_rules
       \/ "overall_score" \notin DOMAIN result.a11y_rules

\* C6: every failure inside process_page that prevents scoring is reported in
\* the returned result's error field.
C6_FailureInErrorField ==
    \A i \in 1..Len(results) :
        ScoringPrevented(log[i], results[i]) => "error" \in DOMAIN results[i]


\* A page whose SEO evaluator raised: no score, and a result was returned
C6_Witness ==
    /\ Len(results) >= 1
    /\ ScoringPrevented(log[Len(log)], results[Len(results)])
    /\ log[Len(log)].rules

----------------------------------------------------------------------------
(* Properties of the Cache API (SpecCache) *)

\* C4 as claimed: after a set(k, r) of a serializable r, get(k) returns a value
\* equal to r until the next set(k, .) or clear().
C4_RoundTripAnySerializable ==
    \A k \in URLS :
        api.stored[k] # Unset => Cache_get(cache_dir, k) = api.stored[k]

\* C4, amended: after a set(k, r) that wrote its file, for r built from the
\* types JSON has (str keys, lists), get(k) returns a value equal to r, through
\* any gets and any sets on other keys, until the next set(k, .) or clear().
C4_RoundTripJsonNative ==
    /\ \A k \in URLS :
         (api.stored[k] # Unset /\ JsonNative(api.stored[k]))
            => Cache_get(cache_dir, k) = api.stored[k]
    /\ (api.op = "get" /\ api.stored[api.key] # Unset /\ JsonNative(api.stored[api.key]))
            => api.ret = api.stored[api.key]

\* get(k) returned the value set under k, after a set on the other key as well
C4_Witness ==
    /\ api.op = "get"
    /\ api.stored[api.key] # Unset
    /\ JsonNative(api.stored[api.key])
    /\ api.ret = api.stored[api.key]
    /\ api.touched = URLS

\* C5: get on a key that was not set since the last clear() returns None.
C5_MissReturnsNone ==
    (api.op = "get" /\ api.key \notin api.touched) => api.ret = None

\* A miss on one key while the other key holds an entry
C5_Witness ==
    /\ api.op = "get"
    /\ api.key \notin api.touched
    /\ api.touched # {}
    /\ Cache_total_entries(cache_dir) >= 1
    /\ api.ret = None

----------------------------------------------------------------------------
(* Properties of the batch runner (Spec) *)

LoopOver == pc \in {"reports", "stats", "done", "crashed"}

\* C7: once the URL list is loaded, the run writes pages.jsonl and summary.csv
\* whatever the per-URL outcomes were.
C7_ReportsAlwaysWritten ==
    pc \in {"stats", "done", "crashed"} => (jsonl_written /\ csv_written)

TonePresent == { i \in 1..Len(results) : Truthy(results[i].tone_summary) }

\* LLM enabled, max_calls = N >= 1, more than N URLs, every processed page a
\* cache miss that fetched and extracted, the analyzer never returning null
C8_Scenario ==
    /\ ~no_llm
    /\ max_calls >= 1
    /\ Len(urls) > max_calls
    /\ \A i \in 1..Len(log) :
         /\ ~log[i].cache_hit
         /\ log[i].rules
         /\ log[i].tone => Truthy(results[i].tone_summary)

\* C8: in that scenario the run ends with exactly N results that carry a tone
\* summary, the loop is left through the budget check, and fewer results than
\* URLs are returned.
C8_BudgetExhaustedMidBatch ==
    (LoopOver /\ C8_Scenario) =>
        /\ Cardinality(TonePresent) = max_calls
        /\ stopped_early
        /\ Len(results) < Len(urls)

C8_Witness ==
    /\ pc = "done"
    /\ C8_Scenario
    /\ Len(urls) = MaxLen
    /\ Cardinality(TonePresent) = max_calls
    /\ Len(results) = max_calls

\* C9: at every point of a run, results[i].url = urls[i] for every i up to
\* len(results).
C9_OrderPreserved ==
    /\ Len(results) <= Len(urls)
    /\ \A i \in 1..Len(results) : results[i].url = urls[i]

\* Two different URLs, the first served from the cache, the second an error
C9_Witness ==
    /\ Len(results) = 2
    /\ urls[1] # urls[2]
    /\ log[1].cache_hit
    /\ "error" \in DOMAIN results[2]

\* C10: every URL handed to process_page is one of the first max_pages URLs
\* of the input list, in order, so there are never more than max_pages results.
C10_TruncatedToMaxPages ==
    \A i \in 1..Len(log) : i <= max_pages /\ log[i].url = all_urls[i]

----------------------------------------------------------------------------
(* Properties of the later steps of process_page (SpecCalls) *)

\* The last process_page call
LastCall == log[Len(log)]
LastResult == results[Len(results)]

\* C11 as claimed: a call on an uncached URL that fetched and extracted leaves
\* a cache entry for that URL equal to the returned result.
C11_AlwaysCached ==
    [][ Called =>
          LET t == log'[Len(log')]
          IN  (~Truthy(Cache_get(cache_dir, t.url)) /\ t.extract /\ t.rules)
                => Cache_get(cache_dir', t.url) = results'[Len(results')] ]_vars

\* C11, amended: from every reachable cache and budget, a call on an uncached
\* URL that fetches and extracts, and whose cache write succeeds, leaves a cache
\* entry under exactly that URL equal to the returned result and touches no
\* other entry, whatever the rule outcomes and the tone step did.
C11_CachedWhenWritten ==
    \A url \in URLS, use_llm \in BOOLEAN, env \in Env :
        (~Truthy(Cache_get(cache_dir, url)) /\ env.extract = "ok" /\ env.write = "ok")
            => LET r == process_page(url, cache_dir, CurrentBudget, use_llm, env)
               IN  /\ Cache_get(r.cache_dir, url) = r.ret
                   /\ \A p \in CachePaths \ {Cache_get_cache_path(url)} :
                          r.cache_dir[p] = cache_dir[p]

\* A page whose SEO evaluator raised and whose tone step was skipped by the
\* exhausted budget is in the cache
C11_Witness ==
    /\ Len(log) = 1
    /\ LastCall.rules
    /\ LastCall.use_llm /\ ~LastCall.tone
    /\ max_calls >= 1 /\ calls_made = max_calls
    /\ "error" \in DOMAIN LastResult.seo_rules
    /\ Cache_get(cache_dir, LastCall.url) = LastResult

\* C12: from every reachable cache and budget, a call on an uncached URL whose
\* fetch succeeds and whose extraction raises or yields empty text returns the
\* error result "Failed to extract text", runs neither the rule evaluators nor
\* the tone analyzer, and leaves the budget and the cache as they are.
C12_ExtractFailureTerminal ==
    \A url \in URLS, use_llm \in BOOLEAN, env \in Env :
        (/\ ~Truthy(Cache_get(cache_dir, url))
         /\ env.fetch = "ok"
         /\ env.extract \in {"exception", "empty_text"})
            => LET r == process_page(url, cache_dir, CurrentBudget, use_llm, env)
               IN  /\ r.ret = ErrorResult(url, "Failed to extract text")
                   /\ r.trace.fetch /\ r.trace.extract
                   /\ ~r.trace.rules /\ ~r.trace.tone /\ ~r.trace.record /\ ~r.trace.set
                   /\ r.budget = CurrentBudget
                   /\ r.cache_dir = cache_dir

\* An extraction failure with LLM enabled and budget left, while the other URL
\* is cached: there is no entry for the failed URL
C12_Witness ==
    /\ Len(log) = 1
    /\ LastCall.extract /\ ~LastCall.rules
    /\ LastCall.use_llm /\ calls_made < max_calls
    /\ LastResult = ErrorResult(LastCall.url, "Failed to extract text")
    /\ Cache_get(cache_dir, LastCall.url) = None
    /\ \E u \in URLS : Cache_get(cache_dir, u) # None

\* C13: from every reachable cache and budget, a call that records a
\* 'tone_analysis' call returns a non-null tone_summary; and when the analyzer
\* returns null, calls_made and calls_by_type are the same after process_page
\* as before, tone_summary is null and the result carries no error field.
C13_FailedCallNotRecorded ==
    \A url \in URLS, use_llm \in BOOLEAN, env \in Env :
        (~Truthy(Cache_get(cache_dir, url)) /\ env.extract = "ok")
            => LET r == process_page(url, cache_dir, CurrentBudget, use_llm, env)
               IN  /\ r.trace.record => Truthy(r.ret.tone_summary)
                   /\ (r.trace.tone /\ analyze_tone(Str("text"), env.tone) = None)
                         => /\ r.budget = CurrentBudget
                            /\ r.ret.tone_summary = None
                            /\ "error" \notin DOMAIN r.ret

\* The analyzer was invoked and returned null after the other URL was cached:
\* nothing was recorded and the budget still has room
C13_Witness ==
    /\ Len(log) = 1
    /\ LastCall.tone /\ ~LastCall.record
    /\ LastResult.tone_summary = None
    /\ "error" \notin DOMAIN LastResult
    /\ calls_made < max_calls
    /\ \E u \in URLS : u # LastCall.url /\ Cache_get(cache_dir, u) # None

----------------------------------------------------------------------------
(* Properties of the budget over a run (Spec) *)

\* The process_page calls of this run that invoked the tone analyzer
ToneInvocations == { i \in 1..Len(log) : log[i].tone }

\* C14: during a run the tone analyzer is never invoked more than max_calls
\* times, whatever the analyzer returns.
C14_InvocationsWithinBudget == Cardinality(ToneInvocations) <= max_calls

----------------------------------------------------------------------------
(* The shape of the results of process_page (SpecPipeline) *)

\* The result of lines 138-148 with both rule bundles scored
FullShape(result) ==
    /\ {"seo_rules", "a11y_rules", "tone_summary", "issues", "scores"} \subseteq DOMAIN result
    /\ "error" \notin DOMAIN result
    /\ "overall_score" \in DOMAIN result.seo_rules
    /\ "overall_score" \in DOMAIN result.a11y_rules

\* The result of lines 106-112 and 117-123
ErrorShape(result) ==
    /\ "error" \in DOMAIN result
    /\ result.seo_rules = EmptyDict
    /\ result.a11y_rules = EmptyDict
    /\ result.tone_summary = None
    /\ "scores" \notin DOMAIN result
    /\ "issues" \notin DOMAIN result

\* C15: every result process_page returns on a cache miss has the full shape
\* or the error shape, and never both.
C15_TwoShapes ==
    \A i \in 1..Len(results) :
        ~log[i].cache_hit =>
            /\ FullShape(results[i]) \/ ErrorShape(results[i])
            /\ ~(FullShape(results[i]) /\ ErrorShape(results[i]))

----------------------------------------------------------------------------
(* Cache.clear (SpecCache) *)

\* C16: clear() returns the number of entries that existed just before the
\* call, and after it get(k) is None for every key and the stats report zero
\* entries.
C16_ClearReturnsCount ==
    [][ api'.op = "clear" =>
          /\ api'.ret = PyInt(Cache_total_entries(cache_dir))
          /\ \A k \in URLS : Cache_get(cache_dir', k) = None
          /\ Cache_total_entries(cache_dir') = 0 ]_vars

----------------------------------------------------------------------------
(* Input configuration failure (Spec) *)

\* C17: when the URL list cannot be loaded the command exits at once: at the
\* exit no process_page call was made, no LLM call was recorded and no report
\* was written, and nothing happens after the exit.
C17_LoadFailureAborts ==
    [][ /\ pc # "exit"
        /\ pc' = "exit" =>
              /\ log' = << >>
              /\ results' = << >>
              /\ calls_made' = 0
              /\ ~jsonl_written'
              /\ csv_rows' = 0
              /\ ~csv_written' ]_vars

\* The load failed in a run with LLM enabled, budget and a cached page
C17_Witness ==
    /\ pc = "exit"
    /\ ~no_llm
    /\ max_calls >= 1
    /\ Cache_total_entries(cache_dir) >= 1

----------------------------------------------------------------------------
(* rules/seo_rules.py and rules/a11y_rules.py: the scoring inside the try     *)
(* blocks of check_seo and check_a11y.  A page is described by what the        *)
(* checks read from it: the title length (-1: no title tag), the length of     *)
(* the meta description's content (-1: no such tag), the number of h1 tags,    *)
(* whether a canonical link with an href exists, the number of words, the      *)
(* number of images and of those with an alt attribute, the heading levels in  *)
(* use, and the number of links, of links with text and of generic link texts. *)

TitleMin == 30
TitleMax == 60
MetaMin == 120
MetaMax == 160
WordsLow == 300
WordsMid == 600
HeadingLevels == 6

MaxH1 == 2       \* most h1 tags on a page
MaxImages == 5   \* most images on a page
MaxLinks == 5    \* most links on a page

NoIssue == << >>

check_title_tag(title) ==
    IF title = -1 THEN [score |-> 0, length |-> 0, issues |-> << "Missing title tag" >>]
    ELSE IF title = 0 THEN [score |-> 0, length |-> 0, issues |-> << "Empty title tag" >>]
    ELSE IF title < TitleMin
         THEN [score |-> 50, length |-> title, issues |-> << "Title too short" >>]
    ELSE IF title > TitleMax
         THEN [score |-> 75, length |-> title, issues |-> << "Title too long" >>]
    ELSE [score |-> 100, length |-> title, issues |-> NoIssue]

\* An empty content attribute is falsy, hence also "missing"
check_meta_description(meta) ==
    IF meta = -1 \/ meta = 0
    THEN [score |-> 0, length |-> 0, issues |-> << "Missing meta description" >>]
    ELSE IF meta < MetaMin
         THEN [score |-> 50, length |-> meta, issues |-> << "Meta description too short" >>]
    ELSE IF meta > MetaMax
         THEN [score |-> 75, length |-> meta, issues |-> << "Meta description too long" >>]
    ELSE [score |-> 100, length |-> meta, issues |-> NoIssue]

check_h1_tags(count) ==
    IF count = 0 THEN [score |-> 0, count |-> count, issues |-> << "Missing H1 tag" >>]
    ELSE IF count > 1
         THEN [score |-> 75, count |-> count, issues |-> << "Multiple H1 tags found" >>]
    ELSE [score |-> 100, count |-> count, issues |-> NoIssue]

check_canonical(present) ==
    IF ~present THEN [score |-> 0, issues |-> << "Missing canonical URL" >>]
    ELSE [score |-> 100, issues |-> NoIssue]

check_word_count(count) ==
    IF count < WordsLow THEN [score |-> 25, count |-> count, issues |-> << "Low word count" >>]
    ELSE IF count < WordsMid
         THEN [score |-> 75, count |-> count, issues |-> NoIssue]
    ELSE [score |-> 100, count |-> count, issues |-> NoIssue]

\* alt_percentage = with_alt / total * 100, compared without the division
check_image_alts(total, with_alt) ==
    IF total = 0 THEN [score |-> 100, total |-> 0, with_alt |-> 0, issues |-> NoIssue]
    ELSE IF with_alt = total
         THEN [score |-> 100, total |-> total, with_alt |-> with_alt, issues |-> NoIssue]
    ELSE IF with_alt * 100 >= 80 * total
         THEN [score |-> 75, total |-> total, with_alt |-> with_alt,
               issues |-> << "images missing alt text" >>]
    ELSE IF with_alt * 100 >= 50 * total
         THEN [score |-> 50, total |-> total, with_alt |-> with_alt,
               issues |-> << "images missing alt text" >>]
    ELSE [score |-> 25, total |-> total, with_alt |-> with_alt,
          issues |-> << "images missing alt text" >>]

\* `headings` is built level by level, so it is sorted: a skip is a level in
\* use whose next level in use is more than one above it.
check_heading_hierarchy(levels) ==
    IF levels = {} THEN [score |-> 50, issues |-> << "No headings found" >>]
    ELSE IF \E a \in levels, b \in levels :
                /\ b - a > 1
                /\ \A c \in levels : ~(a < c /\ c < b)
         THEN [score |-> 50, issues |-> << "Heading hierarchy skips" >>]
    ELSE [score |-> 100, issues |-> NoIssue]

\* text_percentage < 80 and generic_count > total * 0.2, without the floats
check_link_text(total, with_text, generic_count) ==
    IF total = 0 THEN [score |-> 100, total |-> 0, with_text |-> 0, issues |-> NoIssue]
    ELSE IF with_text * 100 < 80 * total
         THEN [score |-> 25, total |-> total, with_text |-> with_text,
               issues |-> << "links without text" >>]
    ELSE IF generic_count * 5 > total
         THEN [score |-> 50, total |-> total, with_text |-> with_text,
               issues |-> << "links use generic text" >>]
    ELSE [score |-> 100, total |-> total, with_text |-> with_text, issues |-> NoIssue]

RECURSIVE SumSeq(_)
SumSeq(q) == IF q = << >> THEN 0 ELSE Head(q) + SumSeq(Tail(q))

\* Mutant: the overall score is the sum of the sub-scores
OverallScore_sum(scores) == [num |-> SumSeq(scores), den |-> 1]

\* sum(scores) / len(scores), kept as the fraction num/den
OverallScore(scores) ==
    IF Len(scores) = 0 THEN [num |-> 0, den |-> 1]
    ELSE [num |-> SumSeq(scores), den |-> Len(scores)]

\* check_seo, lines 14-47
SeoChecks(page) ==
    LET title_result == check_title_tag(page.title)
        meta_result == check_meta_description(page.meta)
        h1_result == check_h1_tags(page.h1)
        canonical_result == check_canonical(page.canonical)
        word_count_result == check_word_count(page.words)
    IN  [scores |-> [title |-> title_result.score,
                     meta_description |-> meta_result.score,
                     h1 |-> h1_result.score,
                     canonical |-> canonical_result.score,
                     word_count |-> word_count_result.score],
         issues |-> title_result.issues \o meta_result.issues \o h1_result.issues
                      \o canonical_result.issues \o word_count_result.issues,
         metrics |-> [title_length |-> title_result.length,
                      meta_desc_length |-> meta_result.length,
                      h1_count |-> h1_result.count,
                      word_count |-> word_count_result.count],
         overall_score |-> OverallScore(<< title_result.score, meta_result.score,
                                           h1_result.score, canonical_result.score,
                                           word_count_result.score >>)]

\* check_a11y, lines 14-37
A11yChecks(page) ==
    LET img_result == check_image_alts(page.images, page.with_alt)
        heading_result == check_heading_hierarchy(page.headings)
        link_result == check_link_text(page.links, page.with_text, page.generic)
    IN  [scores |-> [image_alts |-> img_result.score,
                     heading_hierarchy |-> heading_result.score,
                     link_text |-> link_result.score],
         issues |-> img_result.issues \o heading_result.issues \o link_result.issues,
         metrics |-> [images_total |-> img_result.total,
                      images_with_alt |-> img_result.with_alt,
                      links_total |-> link_result.total,
                      links_with_text |-> link_result.with_text],
         overall_score |-> OverallScore(<< img_result.score, heading_result.score,
                                           link_result.score >>)]

\* Lengths and counts on both sides of every threshold
SeoPages ==
    [check : {"seo"},
     title : {-1, 0, TitleMin - 1, TitleMin, TitleMax, TitleMax + 1},
     meta : {-1, 0, MetaMin - 1, MetaMin, MetaMax, MetaMax + 1},
     h1 : 0..MaxH1,
     canonical : BOOLEAN,
     words : {0, WordsLow - 1, WordsLow, WordsMid - 1, WordsMid}]

A11yPages ==
    { page \in [check : {"a11y"}, images : 0..MaxImages, with_alt : 0..MaxImages,
                headings : SUBSET (1..HeadingLevels),
                links : 0..MaxLinks, with_text : 0..MaxLinks, generic : 0..MaxLinks] :
        /\ page.with_alt <= page.images
        /\ page.with_text <= page.links
        /\ page.generic <= page.with_text }

\* One rule evaluator called on its own on one page, as tests/test_rules.py
\* does: log holds the page and results the bundle the call returned.
InitRules ==
    /\ cache_dir = [p \in CachePaths |-> Absent]
    /\ max_calls = 0
    /\ calls_made = 0
    /\ calls_by_type = [t \in {} |-> 0]
    /\ all_urls = << >>
    /\ max_pages = 0
    /\ no_llm = FALSE
    /\ urls = << >>
    /\ results = << >>
    /\ pc = "rules"
    /\ stopped_early = FALSE
    /\ jsonl_written = FALSE
    /\ csv_rows = 0
    /\ csv_written = FALSE
    /\ log = << >>
    /\ api = [op |-> "none"]

RulesFrame ==
    UNCHANGED << cache_dir, max_calls, calls_made, calls_by_type, all_urls, max_pages,
                 no_llm, urls, pc, stopped_early, jsonl_written, csv_rows, csv_written, api >>

CallCheckSeo ==
    /\ pc = "rules"
    /\ results = << >>
    /\ \E page \in SeoPages :
        /\ log' = << page >>
        /\ results' = << SeoChecks(page) >>
    /\ RulesFrame

CallCheckA11y ==
    /\ pc = "rules"
    /\ results = << >>
    /\ \E page \in A11yPages :
        /\ log' = << page >>
        /\ results' = << A11yChecks(page) >>
    /\ RulesFrame

\* The except branch of either evaluator: the parser raised on the markup
CallCheckRaising ==
    /\ pc = "rules"
    /\ results = << >>
    /\ \E check \in {"seo", "a11y"} :
        /\ log' = << [check |-> check, raised |-> TRUE] >>
        /\ results' = << IF check = "seo"
                         THEN check_seo(Str("<html>"), Str("text"), "exception")
                         ELSE check_a11y(Str("<html>"), Str("text"), "exception") >>
    /\ RulesFrame

NextRules == CallCheckSeo \/ CallCheckA11y \/ CallCheckRaising

SpecRules == InitRules /\ [][NextRules]_vars

----------------------------------------------------------------------------
(* Properties of the rule scores (SpecRules) *)

RECURSIVE SumScores(_, _)
SumScores(scores, keys) ==
    IF keys = {} THEN 0
    ELSE LET k == CHOOSE x \in keys : TRUE
         IN  scores[k] + SumScores(scores, keys \ {k})

\* Every sub-score and the overall score are in [0, 100], and the overall
\* score is the unweighted mean of the sub-scores
ScoresBounded(bundle) ==
    /\ \A k \in DOMAIN bundle.scores : bundle.scores[k] >= 0 /\ bundle.scores[k] <= 100
    /\ bundle.overall_score.num >= 0
    /\ bundle.overall_score.num <= 100 * bundle.overall_score.den
    /\ bundle.overall_score.den = Cardinality(DOMAIN bundle.scores)
    /\ bundle.overall_score.num = SumScores(bundle.scores, DOMAIN bundle.scores)

\* C18 as claimed: an overall score that is returned is bounded and the mean
\* of the bounded sub-scores, and a bundle with a sub-score below 100 has a
\* non-empty issues list.
C18_ScoresAndIssues ==
    \A i \in 1..Len(results) :
        /\ "overall_score" \in DOMAIN results[i] => ScoresBounded(results[i])
        /\ (\E k \in DOMAIN results[i].scores : results[i].scores[k] < 100)
              => results[i].issues # << >>

\* C18, amended: an overall score that is returned is bounded and the mean of
\* the bounded sub-scores, and a bundle with a sub-score below 100, other than
\* a word-count score of 75 (300 to 599 words), has a non-empty issues list.
C18_ScoresAndIssuesButWordBand ==
    \A i \in 1..Len(results) :
        /\ "overall_score" \in DOMAIN results[i] => ScoresBounded(results[i])
        /\ (\E k \in DOMAIN results[i].scores :
                /\ results[i].scores[k] < 100
                /\ ~(k = "word_count" /\ results[i].scores[k] = 75))
              => results[i].issues # << >>

\* An accessibility bundle whose mean is not a whole number, with one image
\* out of five lacking its alt attribute reported as an issue
C18_Witness ==
    /\ Len(results) = 1
    /\ "overall_score" \in DOMAIN results[1]
    /\ log[1].check = "a11y"
    /\ log[1].images = 5 /\ log[1].with_alt = 4
    /\ results[1].scores.image_alts = 75
    /\ results[1].overall_score.num = 225
    /\ results[1].overall_score.den = 3
    /\ results[1].issues # << >>

\* A page with nothing on it: empty HTML and empty text
EmptyPage(page) ==
    IF page.check = "seo"
    THEN /\ "raised" \notin DOMAIN page
         /\ page.title = -1 /\ page.meta = -1 /\ page.h1 = 0
         /\ ~page.canonical /\ page.words = 0
    ELSE /\ "raised" \notin DOMAIN page
         /\ page.images = 0 /\ page.headings = {} /\ page.links = 0

\* C19: for empty HTML with empty text the image-alt, link-text and
\* heading-hierarchy sub-scores are 100 and the word-count, title,
\* meta-description, H1 and canonical sub-scores are 0.
C19_EmptyPageScores ==
    \A i \in 1..Len(results) :
        EmptyPage(log[i]) =>
            IF log[i].check = "seo"
            THEN /\ results[i].scores.word_count = 0
                 /\ results[i].scores.title = 0
                 /\ results[i].scores.meta_description = 0
                 /\ results[i].scores.h1 = 0
                 /\ results[i].scores.canonical = 0
            ELSE /\ results[i].scores.image_alts = 100
                 /\ results[i].scores.link_text = 100
                 /\ results[i].scores.heading_hierarchy = 100

----------------------------------------------------------------------------
(* The tone step of process_page (main.py lines 129-135) run by several       *)
(* invocations that share one BudgetManager, with no critical section: each   *)
(* invocation is on an uncached URL of its own that fetched and extracted, so  *)
(* what is left to interleave is can_make_call, analyze_tone and record_call.  *)
(* pc[w] is the position of invocation w, results[w] its tone_summary and log  *)
(* the order in which the steps were taken.                                    *)

MaxWorkers == 2

Workers == 1..MaxWorkers

InitConcurrent ==
    /\ cache_dir = [p \in CachePaths |-> Absent]
    /\ max_calls \in 0..MaxCalls
    /\ calls_made = 0
    /\ calls_by_type = [t \in {} |-> 0]
    /\ all_urls = << >>
    /\ max_pages = 0
    /\ no_llm \in BOOLEAN
    /\ urls = << >>
    /\ results = [w \in Workers |-> None]
    /\ pc = [w \in Workers |-> "line 131"]
    /\ stopped_early = FALSE
    /\ jsonl_written = FALSE
    /\ csv_rows = 0
    /\ csv_written = FALSE
    /\ log = << >>
    /\ api = [op |-> "none"]

ConcurrentFrame ==
    UNCHANGED << cache_dir, max_calls, all_urls, max_pages, no_llm, urls, stopped_early,
                 jsonl_written, csv_rows, csv_written, api >>

\* Line 131: `if use_llm and budget.can_make_call("tone_analysis"):`
CheckBudget ==
    /\ \E w \in Workers :
        /\ pc[w] = "line 131"
        /\ pc' = [pc EXCEPT ![w] = IF ToneGate(~no_llm, CurrentBudget)
                                    THEN "line 133" ELSE "done"]
        /\ log' = Append(log, [worker |-> w, step |-> "can_make_call"])
    /\ UNCHANGED << calls_made, calls_by_type, results >>
    /\ ConcurrentFrame

\* Line 133: `tone_summary = analyze_tone(text)`
CallAnalyzer ==
    /\ \E w \in Workers, o \in ToneOutcomes :
        /\ pc[w] = "line 133"
        /\ results' = [results EXCEPT ![w] = analyze_tone(Str("text"), o)]
        /\ pc' = [pc EXCEPT ![w] = "line 134"]
        /\ log' = Append(log, [worker |-> w, step |-> "analyze_tone"])
    /\ UNCHANGED << calls_made, calls_by_type >>
    /\ ConcurrentFrame

\* Lines 134-135: `if tone_summary: budget.record_call("tone_analysis")`
RecordCall ==
    /\ \E w \in Workers :
        /\ pc[w] = "line 134"
        /\ LET b == RecordTone(CurrentBudget, results[w])
           IN  /\ calls_made' = b.calls_made
               /\ calls_by_type' = b.calls_by_type
        /\ pc' = [pc EXCEPT ![w] = "done"]
        /\ log' = Append(log, [worker |-> w, step |-> "record_call"])
    /\ UNCHANGED results
    /\ ConcurrentFrame

NextConcurrent == CheckBudget \/ CallAnalyzer \/ RecordCall

SpecConcurrent == InitConcurrent /\ [][NextConcurrent]_vars

\* Position in log of a step of invocation w (0: not taken yet)
StepAt(w, step) ==
    IF \E i \in 1..Len(log) : log[i] = [worker |-> w, step |-> step]
    THEN CHOOSE i \in 1..Len(log) : log[i] = [worker |-> w, step |-> step]
    ELSE 0

\* Invocation v made its budget check after invocation w had made its own and
\* before w recorded its call
Interleaved ==
    \E w \in Workers, v \in Workers :
        /\ v # w
        /\ StepAt(w, "can_make_call") > 0
        /\ StepAt(v, "can_make_call") > StepAt(w, "can_make_call")
        /\ \/ StepAt(w, "record_call") = 0
           \/ StepAt(v, "can_make_call") < StepAt(w, "record_call")
        /\ StepAt(w, "analyze_tone") > 0 \/ pc[w] = "line 133"

\* C20: when the invocations run one after the other, calls_made never passes
\* max_calls; a state with calls_made > max_calls arises only when the steps
\* of two invocations interleave (and then it does arise: see the witness).
C20_OverrunOnlyWhenInterleaved ==
    calls_made > max_calls => Interleaved

\* Two invocations both passed the check before either recorded, and the
\* budget is overrun
C20_Witness ==
    /\ calls_made > max_calls
    /\ max_calls >= 1
    /\ Interleaved
    /\ \A w \in Workers : pc[w] = "done"

----------------------------------------------------------------------------
(* The stop check of the batch loop (Spec) *)

\* C21: the stop check runs after each processed page: the loop is left
\* through `break` if and only if LLM use is enabled and calls_made >=
\* max_calls at that check.  On an early stop the results so far are kept and
\* no further URL is processed; without one the loop goes on to the next URL
\* until the list is used up, so with LLM use disabled every URL of the
\* truncated list is processed.  No stop happens before the first page.
C21_EarlyStop ==
    [][ /\ Called =>
              /\ stopped_early' <=> (~no_llm /\ calls_made' >= max_calls)
              /\ SubSeq(results', 1, Len(results)) = results
              /\ Len(results') = Len(results) + 1
              /\ stopped_early' => pc' = "reports"
              /\ (~stopped_early' /\ Len(results') < Len(urls)) => pc' = "loop"
        /\ ~Called => (results' = results \/ results' = << >>)
        /\ Len(log') = Len(results')
        /\ (stopped_early' \/ pc' \in {"reports", "stats", "done", "crashed"})
              => (Len(urls') > 0 => Len(results') >= 1)
        /\ (pc' \in {"reports", "stats", "done", "crashed"} /\ ~stopped_early')
              => Len(results') = Len(urls')
        /\ (pc' \in {"reports", "stats", "done", "crashed"} /\ no_llm')
              => Len(results') = Len(urls') ]_vars

\* With LLM enabled and max_calls = 0 the first page is still processed, then
\* the loop stops and the second URL is never attempted
C21_Witness ==
    /\ stopped_early
    /\ ~no_llm
    /\ max_calls = 0
    /\ Len(urls) = 2
    /\ Len(results) = 1
    /\ Len(log) = 1
    /\ jsonl_written

----------------------------------------------------------------------------
(* What the budget gates in process_page (SpecCalls) *)

\* C22: from every reachable cache, for every budget state (also calls_made at
\* or past max_calls) and every use_llm, a call on an uncached URL that fetches
\* and extracts runs check_seo and check_a11y and returns their bundles and
\* the scores taken from them; the analyzer is invoked exactly when use_llm is
\* true and calls_made < max_calls.
C22_RulesNotGated ==
    \A url \in URLS, use_llm \in BOOLEAN, env \in Env, cm \in 0..(MaxCalls + 1) :
        (~Truthy(Cache_get(cache_dir, url)) /\ env.extract = "ok")
            => LET budget == Budget(max_calls, cm, calls_by_type)
                   r == process_page(url, cache_dir, budget, use_llm, env)
                   seo_results == check_seo(Str("<html>"), Str("text"), env.seo)
                   a11y_results == check_a11y(Str("<html>"), Str("text"), env.a11y)
               IN  /\ r.trace.rules
                   /\ r.ret.seo_rules = seo_results
                   /\ r.ret.a11y_rules = a11y_results
                   /\ r.ret.scores.seo = DictGet(seo_results, "overall_score", 0)
                   /\ r.ret.scores.a11y = DictGet(a11y_results, "overall_score", 0)
                   /\ r.trace.tone <=> (use_llm /\ cm < max_calls)

\* A page scored with the budget used up: both bundles and their scores are
\* returned, the analyzer was not invoked
C22_Witness ==
    /\ Len(log) = 1
    /\ LastCall.rules
    /\ LastCall.use_llm /\ ~LastCall.tone
    /\ max_calls >= 1 /\ calls_made >= max_calls
    /\ LastResult.scores.seo = 100
    /\ LastResult.scores.a11y = 100
    /\ LastResult.tone_summary = None

----------------------------------------------------------------------------
(* utils/budget.py on its own: the methods of one BudgetManager called in any *)
(* order.  api holds the last call and what it returned.                      *)

MaxRecorded == 3   \* record_call is called while calls_made is below this

CallTypes == {"default", "tone_analysis"}

\* max(0, max_calls - calls_made)
RemainingCalls(budget) ==
    IF budget.max_calls - budget.calls_made > 0
    THEN budget.max_calls - budget.calls_made ELSE 0

BudgetManager_get_stats(budget) ==
    [total_calls |-> budget.calls_made,
     max_calls |-> budget.max_calls,
     remaining_calls |-> RemainingCalls(budget),
     budget_used_percent |-> IF budget.max_calls > 0
                             THEN [num |-> budget.calls_made * 100, den |-> budget.max_calls]
                             ELSE [num |-> 0, den |-> 1],
     calls_by_type |-> budget.calls_by_type]

BudgetManager_reset(budget) ==
    [budget EXCEPT !.calls_made = 0, !.calls_by_type = [t \in {} |-> 0]]

\* BudgetManager(max_calls) for a negative, a zero and positive ceilings
InitBudget ==
    /\ cache_dir = [p \in CachePaths |-> Absent]
    /\ max_calls \in {-1} \cup 0..MaxCalls
    /\ calls_made = BudgetManager_init(max_calls).calls_made
    /\ calls_by_type = BudgetManager_init(max_calls).calls_by_type
    /\ all_urls = << >>
    /\ max_pages = 0
    /\ no_llm = FALSE
    /\ urls = << >>
    /\ results = << >>
    /\ pc = "budget"
    /\ stopped_early = FALSE
    /\ jsonl_written = FALSE
    /\ csv_rows = 0
    /\ csv_written = FALSE
    /\ log = << >>
    /\ api = [op |-> "init", call_type |-> "", ret |-> None]

BudgetFrame ==
    UNCHANGED << cache_dir, all_urls, max_pages, no_llm, urls, results, pc, stopped_early,
                 jsonl_written, csv_rows, csv_written, log >>

BudgetCanMakeCall ==
    /\ pc = "budget"
    /\ \E call_type \in CallTypes :
        api' = [op |-> "can_make_call", call_type |-> call_type,
                ret |-> can_make_call(CurrentBudget, call_type)]
    /\ UNCHANGED << max_calls, calls_made, calls_by_type >>
    /\ BudgetFrame

BudgetRecordCall ==
    /\ pc = "budget"
    /\ calls_made < MaxRecorded
    /\ \E call_type \in CallTypes :
        LET b == record_call(CurrentBudget, call_type)
        IN  /\ max_calls' = b.max_calls
            /\ calls_made' = b.calls_made
            /\ calls_by_type' = b.calls_by_type
            /\ api' = [op |-> "record_call", call_type |-> call_type, ret |-> None]
    /\ BudgetFrame

BudgetGetStats ==
    /\ pc = "budget"
    /\ api' = [op |-> "get_stats", call_type |-> "",
               ret |-> BudgetManager_get_stats(CurrentBudget)]
    /\ UNCHANGED << max_calls, calls_made, calls_by_type >>
    /\ BudgetFrame

BudgetReset ==
    /\ pc = "budget"
    /\ LET b == BudgetManager_reset(CurrentBudget)
       IN  /\ max_calls' = b.max_calls
           /\ calls_made' = b.calls_made
           /\ calls_by_type' = b.calls_by_type
    /\ api' = [op |-> "reset", call_type |-> "", ret |-> None]
    /\ BudgetFrame

NextBudget == BudgetCanMakeCall \/ BudgetRecordCall \/ BudgetGetStats \/ BudgetReset

SpecBudget == InitBudget /\ [][NextBudget]_vars

\* The counters of the BudgetManager are what they were
CountersUnchanged ==
    /\ max_calls' = max_calls
    /\ calls_made' = calls_made
    /\ calls_by_type' = calls_by_type

\* C23: can_make_call returns true if and only if calls_made < max_calls, for
\* every call type and every budget state (never true with max_calls = 0),
\* and leaves calls_made, calls_by_type and max_calls as they are.
C23_CanMakeCallPureRead ==
    [][ api'.op = "can_make_call" =>
          /\ api'.ret <=> (calls_made < max_calls)
          /\ max_calls = 0 => ~api'.ret
          /\ CountersUnchanged ]_vars

\* can_make_call answered false past the ceiling and the counters stayed
C23_Witness ==
    /\ api.op = "can_make_call"
    /\ api.ret = FALSE
    /\ max_calls >= 1
    /\ calls_made > max_calls
    /\ DOMAIN calls_by_type = CallTypes

\* C24: record_call(t) raises calls_made by exactly 1 and calls_by_type[t] by
\* exactly 1 (an absent entry is created at 1), leaves every other per-type
\* count and max_calls unchanged, and never looks at the ceiling: at or past
\* max_calls it still counts and leaves calls_made > max_calls.
C24_RecordCallUnconditional ==
    [][ api'.op = "record_call" =>
          LET t == api'.call_type
          IN  /\ calls_made' = calls_made + 1
              /\ t \in DOMAIN calls_by_type'
              /\ calls_by_type'[t] = DictGet(calls_by_type, t, 0) + 1
              /\ t \notin DOMAIN calls_by_type => calls_by_type'[t] = 1
              /\ DOMAIN calls_by_type' = DOMAIN calls_by_type \cup {t}
              /\ \A u \in DOMAIN calls_by_type \ {t} : calls_by_type'[u] = calls_by_type[u]
              /\ max_calls' = max_calls
              /\ calls_made >= max_calls => calls_made' > max_calls ]_vars

\* record_call counted a call of a new type although the ceiling was passed
C24_Witness ==
    /\ api.op = "record_call"
    /\ api.call_type = "tone_analysis"
    /\ max_calls = 1
    /\ calls_made = 3
    /\ calls_by_type = [default |-> 2, tone_analysis |-> 1]

RECURSIVE SumCounts(_)
SumCounts(counts) ==
    IF DOMAIN counts = {} THEN 0
    ELSE LET t == CHOOSE x \in DOMAIN counts : TRUE
         IN  counts[t] + SumCounts([u \in DOMAIN counts \ {t} |-> counts[u]])

\* C26: after any sequence of record_call, can_make_call, get_stats and reset,
\* calls_made is the sum of the per-type counts and every per-type count is at
\* least 1; reset leaves calls_made = 0 and no per-type count, and max_calls as
\* it was.
C26_CountsAgree ==
    [][ /\ calls_made' = SumCounts(calls_by_type')
        /\ \A t \in DOMAIN calls_by_type' : calls_by_type'[t] >= 1
        /\ api'.op = "reset" =>
              /\ calls_made' = 0
              /\ DOMAIN calls_by_type' = {}
              /\ max_calls' = max_calls ]_vars

\* reset cleared a manager that had counted calls of both types past its ceiling
C26_Witness ==
    /\ api.op = "reset"
    /\ max_calls = 1
    /\ calls_made = 0
    /\ DOMAIN calls_by_type = {}

----------------------------------------------------------------------------
\* C25: within a run no step of the batch runner or of process_page lowers
\* calls_made or a per-type count, a process_page call raises calls_made by at
\* most 1, and a step that is not a process_page call leaves the counters alone.
C25_CallsMadeMonotonic ==
    [][ /\ calls_made' >= calls_made
        /\ calls_made' <= calls_made + 1
        /\ \A t \in DOMAIN calls_by_type :
              t \in DOMAIN calls_by_type' /\ calls_by_type'[t] >= calls_by_type[t]
        /\ ~Called => BudgetUnchanged ]_vars

\* A page whose analysis failed left the count, the next page raised it by one
C25_Witness ==
    /\ Len(log) = 2
    /\ log[1].tone
    /\ ~log[1].record
    /\ log[2].record
    /\ calls_made = 1
    /\ calls_by_type = [tone_analysis |-> 1]

----------------------------------------------------------------------------
\* C27: the cache key is the exact URL string: for two different URL strings
\* u1 and u2 (here differing by a trailing slash) set(u1, r) leaves what
\* get(u2) returns unchanged, and process_page(u2) after a process_page(u1) that
\* cached its result is a cache miss that fetches u2.
C27_NoNormalization ==
    /\ \A u1, u2 \in URLS, data \in CacheValues, io \in SetIO :
          u1 # u2 => Cache_get(Cache_set(cache_dir, u1, data, io), u2) = Cache_get(cache_dir, u2)
    /\ ( /\ Len(log) = 2
         /\ log[1].url # log[2].url
         /\ log[1].set
         /\ Truthy(Cache_get(cache_dir, log[1].url)) )
          => (~log[2].cache_hit /\ log[2].fetch)

\* Both spellings of the URL were processed and each got its own entry
C27_Witness ==
    /\ Len(log) = 2
    /\ log[1].url = "http://a"
    /\ log[2].url = "http://a/"
    /\ log[1].set
    /\ ~log[2].cache_hit
    /\ log[2].fetch
    /\ log[2].set
    /\ Cache_total_entries(cache_dir) = 2
    /\ Cache_get(cache_dir, "http://a") = results[1]
    /\ Cache_get(cache_dir, "http://a/") = results[2]
    /\ results[1].url # results[2].url

----------------------------------------------------------------------------
\* C28: a cache entry that cannot be read as JSON is a miss: Cache.get returns
\* None, process_page on that URL fetches and goes on exactly as it does when
\* the URL has no entry, and when the page is scored and the write goes
\* through, the corrupt entry is replaced by the new result.
C28_CorruptEntryIsMiss ==
    \A url \in URLS, use_llm \in BOOLEAN, env \in Env :
        cache_dir[Cache_get_cache_path(url)] = Partial
            => LET p == Cache_get_cache_path(url)
                   r == process_page(url, cache_dir, CurrentBudget, use_llm, env)
                   fresh == process_page(url, [cache_dir EXCEPT ![p] = Absent],
                                         CurrentBudget, use_llm, env)
               IN  /\ Cache_get(cache_dir, url) = None
                   /\ ~r.trace.cache_hit
                   /\ r.trace.fetch
                   /\ r.trace.extract <=> (env.fetch = "ok")
                   /\ r.trace.rules <=> (env.extract = "ok")
                   /\ r.ret = fresh.ret
                   /\ r.trace = fresh.trace
                   /\ r.budget = fresh.budget
                   /\ (env.extract = "ok" /\ env.write = "ok")
                         => /\ r.cache_dir[p] = JsonFile(JsonDump(r.ret))
                            /\ Cache_get(r.cache_dir, url) = r.ret

\* The last call found a corrupt entry, scored the page and left its result there
C28_Witness ==
    /\ api.op = "process_page"
    /\ api.found = "partial"
    /\ ~LastCall.cache_hit
    /\ LastCall.fetch
    /\ LastCall.rules
    /\ LastCall.set
    /\ cache_dir[Cache_get_cache_path(LastCall.url)].st = "json"
    /\ Cache_get(cache_dir, LastCall.url) = LastResult

----------------------------------------------------------------------------
\* set(key, data) with this outcome stores nothing readable
WriteFails(data, io) == io # "ok" \/ ~JsonSerializable(data)

\* C29: a cache write that fails is a no-op on the store: set does not raise,
\* process_page returns the result it assembled, and the file under the key is
\* what it was before the call, so no entry is ever left partially written.
C29_FailedWriteIsNoOp ==
    /\ \A key \in URLS, data \in CacheValues, io \in SetIO :
          WriteFails(data, io) => Cache_set(cache_dir, key, data, io) = cache_dir
    /\ \A url \in URLS, use_llm \in BOOLEAN, env \in Env :
          (~Truthy(Cache_get(cache_dir, url)) /\ env.extract = "ok" /\ env.write # "ok")
              => LET r == process_page(url, cache_dir, CurrentBudget, use_llm, env)
                     done == process_page(url, cache_dir, CurrentBudget, use_llm,
                                          [env EXCEPT !.write = "ok"])
                 IN  /\ r.ret = done.ret
                     /\ "scores" \in DOMAIN r.ret
                     /\ r.trace.set
                     /\ r.cache_dir = cache_dir

\* The last call found no entry, returned a full result, and its failed write
\* left a file that cannot be read
C29_Witness ==
    /\ api.op = "process_page"
    /\ api.found = "absent"
    /\ LastCall.set
    /\ "scores" \in DOMAIN LastResult
    /\ cache_dir[Cache_get_cache_path(LastCall.url)] = Partial
    /\ Cache_get(cache_dir, LastCall.url) = None

----------------------------------------------------------------------------
(* chains/tone_chain.py on its own: analyze_tone applied to what the model   *)
(* endpoint replies.  process_page only tests the summary for truth, so the  *)
(* pipeline above keeps two outcomes; here the reply is parsed as the code   *)
(* parses it.                                                                *)

RequiredKeys == {"readability", "tone", "risks"}
ReplyKeys == RequiredKeys \cup {"extra"}

\* The JSON text of a reply: not JSON at all, an object with these keys, an
\* array holding these strings, a string in which these words occur, a number,
\* a boolean or null
ReplyDocs ==
    { [json |-> "invalid"], [json |-> "number"], [json |-> "true"], [json |-> "false"],
      [json |-> "null"] }
    \cup { [json |-> "object", keys |-> K] : K \in SUBSET ReplyKeys }
    \cup { [json |-> "array", items |-> S] : S \in SUBSET ReplyKeys }
    \cup { [json |-> "string", words |-> S] : S \in SUBSET RequiredKeys }

\* How the reply wraps its JSON: bare, in a fenced block with the fences on
\* lines of their own, with fences on the same line as the JSON, or in a block
\* of three or more lines whose closing fence shares the last line of the JSON
Fences == {"none", "block", "inline", "block_cut"}

\* llm.invoke(prompt): the reply, or an exception (endpoint unreachable)
Replies == { [fence |-> f, doc |-> d] : f \in Fences, d \in ReplyDocs } \cup { [fence |-> "exception"] }

\* Lines 78-84: strip, drop the first and last line of a fenced reply of more
\* than two lines, delete the fence markers
Unfence(reply) == IF reply.fence = "block_cut" THEN [json |-> "invalid"] ELSE reply.doc

json_loads(doc) ==
    CASE doc.json = "object" -> [py |-> "dict", items |-> [k \in doc.keys |-> "text"]]
      [] doc.json = "array" -> [py |-> "list", items |-> doc.items]
      [] doc.json = "string" -> [py |-> "str", words |-> doc.words]
      [] doc.json = "number" -> [py |-> "int"]
      [] doc.json = "true" -> [py |-> "bool", value |-> TRUE]
      [] doc.json = "false" -> [py |-> "bool", value |-> FALSE]
      [] OTHER -> None

\* `key in result` raises TypeError on a value that is not a container
Iterable(v) == v.py \in {"dict", "list", "str"}

\* `key in result`: a key of a dict, an element of a list, a substring of a str
KeyIn(key, v) ==
    CASE v.py = "dict" -> key \in DOMAIN v.items
      [] v.py = "list" -> key \in v.items
      [] OTHER -> key \in v.words

\* Lines 90-94
UnableFormat ==
    [py |-> "dict",
     items |-> [readability |-> "Unable to analyze", tone |-> "Unable to analyze",
                risks |-> "Analysis failed - invalid response format"]]

\* Lines 102-106
UnableParse ==
    [py |-> "dict",
     items |-> [readability |-> "Unable to analyze", tone |-> "Unable to analyze",
                risks |-> "Analysis failed - JSON parse error"]]

\* analyze_tone from llm.invoke on: json.JSONDecodeError gives the parse-error
\* triple, any other exception None
analyze_reply(reply) ==
    IF reply.fence = "exception" THEN None
    ELSE LET doc == Unfence(reply)
         IN  IF doc.json = "invalid" THEN UnableParse
             ELSE LET result == json_loads(doc)
                  IN  IF ~Iterable(result) THEN None
                      ELSE IF ~(\A key \in RequiredKeys : KeyIn(key, result))
                           THEN UnableFormat
                           ELSE result

InitTone ==
    /\ cache_dir = [p \in CachePaths |-> Absent]
    /\ max_calls = 0
    /\ calls_made = 0
    /\ calls_by_type = [t \in {} |-> 0]
    /\ all_urls = << >>
    /\ max_pages = 0
    /\ no_llm = FALSE
    /\ urls = << >>
    /\ results = << >>
    /\ pc = "tone"
    /\ stopped_early = FALSE
    /\ jsonl_written = FALSE
    /\ csv_rows = 0
    /\ csv_written = FALSE
    /\ log = << >>
    /\ \E reply \in Replies : api = [op |-> "invoke", reply |-> reply, ret |-> Unset]

AnalyzeToneCall ==
    /\ pc = "tone"
    /\ api.op = "invoke"
    /\ api' = [op |-> "analyze_tone", reply |-> api.reply, ret |-> analyze_reply(api.reply)]
    /\ UNCHANGED << cache_dir, max_calls, calls_made, calls_by_type, all_urls, max_pages,
                    no_llm, urls, results, pc, stopped_early, jsonl_written, csv_rows,
                    csv_written, log >>

NextTone == AnalyzeToneCall

SpecTone == InitTone /\ [][NextTone]_vars

\* The reply is not a JSON object with the three required keys
Malformed(reply) ==
    /\ reply.fence # "exception"
    /\ LET doc == Unfence(reply)
       IN  doc.json # "object" \/ ~(RequiredKeys \subseteq doc.keys)

\* A dict with the three fields
ThreeFields(v) == v.py = "dict" /\ RequiredKeys \subseteq DOMAIN v.items

\* C30: whatever the model replies, analyze_tone returns None or a dict with
\* readability, tone and risks; for a reply that is not JSON, or is JSON but
\* not an object or lacks a required key, it returns the "Unable to analyze"
\* triple.
C30_NeverPartial ==
    api.op = "analyze_tone" =>
        /\ api.ret = None \/ ThreeFields(api.ret)
        /\ Malformed(api.reply) => api.ret \in {UnableParse, UnableFormat}

\* The model replied with a bare JSON number and the analyzer returned None
C30_Witness ==
    /\ api.op = "analyze_tone"
    /\ api.reply.fence = "none"
    /\ api.reply.doc.json = "number"
    /\ api.ret = None

----------------------------------------------------------------------------
(* The audit run with its statements executed to the end: audit is straight- *)
(* line code around one for loop, so a step that can be taken is taken once  *)
(* the call it waits for has returned.                                       *)

SpecLive ==
    /\ Init
    /\ [][Next]_vars
    /\ WF_vars(AuditStart)
    /\ WF_vars(LoopStep)
    /\ WF_vars(SaveReports)
    /\ WF_vars(DisplayStats)

Min(a, b) == IF a <= b THEN a ELSE b

\* The i-th process_page call of the run is on position i of the truncated list
EachPositionOnce ==
    /\ Len(log) <= Len(urls)
    /\ \A i \in 1..Len(log) : log[i].url = urls[i]

\* No call is made beyond min(len(urls), max_pages)
CallsWithinLimit == Len(log) > 0 => Len(log) <= Min(Len(all_urls), max_pages)

\* C31: a run over a loaded URL list makes at most min(len(urls), max_pages)
\* process_page calls, the i-th of them on position i of the truncated list (no
\* position is attempted twice), and then reaches the report-writing step.
C31_RunTerminates ==
    /\ [](CallsWithinLimit /\ EachPositionOnce)
    /\ (pc = "loop" ~> pc = "reports")

\* With --max-pages -1 and two URLs, one page was processed before the reports
C31_Witness ==
    /\ pc = "reports"
    /\ max_pages = -1
    /\ Len(all_urls) = 2
    /\ Len(urls) = 1
    /\ Len(log) = 1
    /\ Len(log) > Min(Len(all_urls), max_pages)

====
